---- MODULE Spec2Model ----
(***************************************************************************)
(* Model of the goal-image pipeline of Rigellion-tech/webhook-server:      *)
(*   src/utils/image_generator.py  build_prompt, call_segmind,             *)
(*                                 call_getimg, generate_goal_image        *)
(*   src/webhook.py                generate_goal_image (nested helpers),   *)
(*                                 the one the /webhook endpoint invokes   *)
(* Both files keep their own module-level counters and rate-limit          *)
(* timestamps; a behaviour of Spec / SpecConc runs the functions of        *)
(* utils/image_generator.py, a behaviour of SpecWebhook those of           *)
(* webhook.py.                                                             *)
(***************************************************************************)
EXTENDS Integers, Sequences, FiniteSets, TLC

(***************************************************************************)
(* Bounds of the model.                                                    *)
(***************************************************************************)
\* first reading of time.time() (seconds); any positive wall-clock value
ClockStart == 1
\* the clock advances in steps of TickSeconds, at most MaxTicks times
TickSeconds == 1200
MaxTicks == 3
\* number of generate_goal_image requests served in one behaviour
MaxRequests == 2
\* build_prompt is applied to the weights 0..MaxWeight
MaxWeight == 4

\* threads serving requests; Spec uses only the first one
Runs == {"r1", "r2"}
SeqRuns == {"r1"}

(***************************************************************************)
(* Program constants.                                                      *)
(***************************************************************************)
SEGMIND_COOLDOWN_SECONDS == 3600
GETIMG_COOLDOWN_SECONDS == 1800

\* utils/image_generator.py, call_getimg
fallback_models == <<"realistic-vision-v5", "juggernaut-xl-v8", "dreamshaper-v7">>
\* webhook.py, call_getimg
W_fallback_models ==
    <<"realistic-vision-v5", "dreamshaper-v8", "sdxl-lightning", "rev-animated-v1">>

(***************************************************************************)
(* Values.  Python's None is the string None; a timestamp that is None is  *)
(* NoTime.  URLs are opaque strings.                                       *)
(***************************************************************************)
None == "<None>"
NoTime == -1

\* no prompt composed (yet)
NoPrompt == <<>>

\* what cloudinary_upload's secure_url, Segmind's output and Getimg's
\* data[0].url look like
UploadedUrl == "https://res.cloudinary.com/webhook_images/src"
SegmindUrl == "https://segmind/output"
\* a JSON value that is neither a string nor a list (Segmind's "output")
SegmindObject == "<object>"
GetimgUrl(model_name) == "https://getimg/" \o model_name

\* Python truthiness of the values the pipeline tests with `if x` / `not x`
Truthy(v) == v # None /\ v # ""
\* `if last_..._rate_limit_time:` : None and 0.0 are falsy
TruthyTime(t) == t # NoTime /\ t # 0

(***************************************************************************)
(* build_prompt (utils/image_generator.py 17-43).                          *)
(* A Python value is a record: [t |-> "none"], [t |-> "num", n |-> i],     *)
(* [t |-> "str", s |-> <<chars>>], [t |-> "obj"] (a list, dict, ...).      *)
(***************************************************************************)
PyNone == [t |-> "none"]
PyNum(i) == [t |-> "num", n |-> i]
PyStr(chars) == [t |-> "str", s |-> chars]
PyObj == [t |-> "obj"]
\* an argument the caller does not pass
PyAbsent == [t |-> "absent"]

\* `if v` / `v or 0`
PyTruthy(v) ==
    CASE v.t = "none" -> FALSE
      [] v.t = "num" -> v.n # 0
      [] v.t = "str" -> v.s # <<>>
      [] OTHER -> TRUE

Digits == <<"0", "1", "2", "3", "4", "5", "6", "7", "8", "9">>
IsDigit(c) == \E i \in 1..10 : Digits[i] = c
DigitVal(c) == (CHOOSE i \in 1..10 : Digits[i] = c) - 1

RECURSIVE ParseNat(_)
ParseNat(chars) ==
    IF chars = <<>> THEN 0
    ELSE 10 * ParseNat(SubSeq(chars, 1, Len(chars) - 1)) + DigitVal(chars[Len(chars)])

\* float(v): [ok, val]; ok = FALSE when float() raises ValueError/TypeError.
\* Strings are decimal digit strings with an optional leading "-".
Float(v) ==
    CASE v.t = "num" -> [ok |-> TRUE, val |-> v.n]
      [] v.t = "str" ->
            LET neg == v.s # <<>> /\ v.s[1] = "-"
                body == IF neg THEN Tail(v.s) ELSE v.s
            IN  IF body # <<>> /\ \A i \in 1..Len(body) : IsDigit(body[i])
                THEN [ok |-> TRUE, val |-> IF neg THEN 0 - ParseNat(body) ELSE ParseNat(body)]
                ELSE [ok |-> FALSE, val |-> 0]
      [] OTHER -> [ok |-> FALSE, val |-> 0]

\* float(w or 0)
FloatOrZero(w) == IF PyTruthy(w) THEN Float(w) ELSE [ok |-> TRUE, val |-> 0]

\* lines 18-22
weight_diff(current_weight, desired_weight) ==
    LET d == FloatOrZero(desired_weight)
        c == FloatOrZero(current_weight)
    IN  IF d.ok /\ c.ok THEN d.val - c.val ELSE 0

Abs(x) == IF x < 0 THEN 0 - x ELSE x

\* mutant: a difference of exactly 2 still counts as similar
body_prompt_BoundaryIsSimilar(diff) ==
    IF Abs(diff) <= 2 THEN "similar body type"
    ELSE IF diff < 0 THEN "slimmer, toned, healthy appearance"
    ELSE "stronger, athletic build"

\* lines 24-29
body_prompt(diff) ==
    IF Abs(diff) < 2 THEN "similar body type"
    ELSE IF diff < 0 THEN "slimmer, toned, healthy appearance"
    ELSE "stronger, athletic build"

Upper == <<"A", "B", "C", "D", "E", "F", "G", "H", "I", "J", "K", "L", "M",
           "N", "O", "P", "Q", "R", "S", "T", "U", "V", "W", "X", "Y", "Z">>
Lower == <<"a", "b", "c", "d", "e", "f", "g", "h", "i", "j", "k", "l", "m",
           "n", "o", "p", "q", "r", "s", "t", "u", "v", "w", "x", "y", "z">>
LowerChar(c) ==
    IF \E i \in 1..26 : Upper[i] = c
    THEN Lower[CHOOSE i \in 1..26 : Upper[i] = c]
    ELSE c
\* str.lower()
StrLower(chars) == [i \in 1..Len(chars) |-> LowerChar(chars[i])]

\* lines 31-37; gender.lower() raises AttributeError when gender is truthy
\* and not a string
GenderRaises(gender) == PyTruthy(gender) /\ gender.t # "str"
gender_prompt(gender) ==
    IF ~PyTruthy(gender) \/ gender.t # "str" THEN "realistic human body appearance"
    ELSE LET g == StrLower(gender.s)
         IN  IF g \in {<<"m", "a", "l", "e">>, <<"m", "a", "n">>}
             THEN "masculine features, realistic male fitness aesthetic"
             ELSE IF g \in {<<"f", "e", "m", "a", "l", "e">>, <<"w", "o", "m", "a", "n">>}
             THEN "feminine features, realistic female fitness aesthetic"
             ELSE "realistic human body appearance"

\* lines 17-43: [raised, prompt]; the prompt is the tuple of the parts the
\* f-string joins with ", " before the fixed suffix
build_prompt(base_prompt, gender, current_weight, desired_weight) ==
    IF GenderRaises(gender) THEN [raised |-> TRUE, prompt |-> NoPrompt]
    ELSE [raised |-> FALSE,
          prompt |-> <<base_prompt,
                       body_prompt(weight_diff(current_weight, desired_weight)),
                       gender_prompt(gender),
                       "photorealistic, preserve face, close resemblance to original photo">>]

(***************************************************************************)
(* State.                                                                  *)
(***************************************************************************)
VARIABLES
    \* module globals (utils/image_generator.py 14-15, webhook.py 34-58)
    segmind_calls, segmind_failures, getimg_calls, getimg_failures,
    last_segmind_rate_limit_time, last_getimg_rate_limit_time,
    \* time.time()
    now,
    \* number of requests started so far
    started,
    \* per thread: position and locals of the generate_goal_image call it serves
    run

globals == <<segmind_calls, segmind_failures, getimg_calls, getimg_failures,
             last_segmind_rate_limit_time, last_getimg_rate_limit_time>>
vars == <<segmind_calls, segmind_failures, getimg_calls, getimg_failures,
          last_segmind_rate_limit_time, last_getimg_rate_limit_time,
          now, started, run>>

\* the requests served: generate_goal_image(prompt, image_url, gender,
\* current_weight, desired_weight); prompt and image_url are opaque
RequestInputs ==
    { [gender |-> PyStr(<<"F", "e", "m", "a", "l", "e">>),
       current_weight |-> PyNum(60), desired_weight |-> PyNum(70)],
      [gender |-> PyNum(5), current_weight |-> PyNum(60), desired_weight |-> PyNum(60)] }

BasePrompt == "full body studio portrait"

\* locals of a thread that serves no request
IdleRun ==
    [pc |-> "idle",
     req |-> [gender |-> PyNone, current_weight |-> PyNone, desired_weight |-> PyNone],
     entry |-> <<0, 0, 0, 0, NoTime, NoTime>>,   \* the module globals when the call began
     src |-> "none",                 \* outcome of fetch / verify / upload
     uploads |-> 0,                  \* cloudinary_upload calls made
     uploaded_image_url |-> None,
     enhanced_prompt |-> NoPrompt,
     trace |-> <<>>,                 \* provider clients invoked, in order
     reg |-> 0,                      \* value loaded by the statement in progress, else 0
     \* call_segmind
     seg_prompt |-> NoPrompt, seg_image |-> None,
     seg_gate |-> FALSE,             \* a recorded 429 was inside its window at the guard
     seg_http |-> 0,                 \* POSTs sent to Segmind
     seg_sent_cd |-> FALSE,          \* a POST was sent while a recorded 429 was inside its window
     seg_resp |-> "none",
     seg_ret |-> None,
     face_enhanced_url |-> None,
     \* call_getimg
     gi_prompt |-> NoPrompt, gi_image |-> None,
     gi_gate |-> FALSE,
     gi_dl |-> 0,                    \* image downloads issued
     gi_no_key |-> FALSE,            \* the Authorization header was built with GETIMG_API_KEY unset
     gi_sent_cd |-> FALSE,
     mi |-> 0,                       \* index of model_name in the for loop
     gi_log |-> <<>>,                \* [model, resp] of each model POST, in order
     gi_ret |-> None,
     result |-> None,                \* return value of generate_goal_image
     \* handle_webhook (webhook.py): position, request body, extracted
     \* values, emails handed to send_email, HTTP status answered (0: none yet)
     h |-> [pc |-> "idle", body |-> "none", email |-> PyNone, photo_url |-> PyNone,
            age |-> PyNone, current_weight_kg |-> PyNone, desired_weight_kg |-> PyNone,
            image_url |-> None, plan |-> "none", pdf |-> "none",
            sent |-> 0, status |-> 0]]

Init ==
    /\ segmind_calls = 0 /\ segmind_failures = 0
    /\ getimg_calls = 0 /\ getimg_failures = 0
    /\ last_segmind_rate_limit_time = NoTime
    /\ last_getimg_rate_limit_time = NoTime
    /\ now = ClockStart
    /\ started = 0
    /\ run = [r \in Runs |-> IdleRun]

\* the wall clock advances
Tick ==
    /\ now < ClockStart + MaxTicks * TickSeconds
    /\ now' = now + TickSeconds
    /\ UNCHANGED <<globals, started, run>>

\* a 429 recorded at t is inside the window W at time n
InWindow(t, n, W) == t # NoTime /\ n - t < W

(***************************************************************************)
(* utils/image_generator.py: generate_goal_image, lines 203-225 and        *)
(* 241-246.                                                                *)
(***************************************************************************)
\* cloudinary_upload answers a successful upload with its secure_url
SourceOutcomes == {"fetch_error", "not_image", "upload_error", "uploaded"}

\* mutant: a failed Image.verify() does not end the request
SourceFatal_VerifyIgnored(o) == o \in {"fetch_error", "upload_error"}

\* lines 207, 210-215, 241-246: the outcomes that end the request with None
SourceFatal(o) == o \in {"fetch_error", "not_image", "upload_error"}

\* a thread takes the next request
Start(r) ==
    /\ run[r].pc \in {"idle", "done"}
    /\ started < MaxRequests
    /\ started' = started + 1
    /\ \E q \in RequestInputs :
          run' = [run EXCEPT ![r] = [IdleRun EXCEPT !.pc = "source", !.req = q,
                                                    !.entry = globals]]
    /\ UNCHANGED <<globals, now>>

\* lines 204-225: download, verify, upload, build_prompt
Source(r) ==
    /\ run[r].pc = "source"
    /\ \E o \in SourceOutcomes :
          LET bp == build_prompt(BasePrompt, run[r].req.gender,
                                 run[r].req.current_weight, run[r].req.desired_weight)
              url == IF o = "uploaded" THEN UploadedUrl ELSE None
          IN  IF SourceFatal(o)
              THEN run' = [run EXCEPT ![r].pc = "done", ![r].src = o,
                                      ![r].uploads = IF o = "upload_error" THEN 1 ELSE 0,
                                      ![r].result = None]
              ELSE IF bp.raised
              THEN \* AttributeError caught by `except Exception` (244-246)
                   run' = [run EXCEPT ![r].pc = "done", ![r].src = o, ![r].uploads = 1,
                                      ![r].uploaded_image_url = url,
                                      ![r].result = None]
              ELSE run' = [run EXCEPT ![r].pc = "seg_calls_load", ![r].src = o,
                                      ![r].uploads = 1,
                                      ![r].uploaded_image_url = url,
                                      ![r].enhanced_prompt = bp.prompt,
                                      ![r].seg_prompt = bp.prompt,
                                      ![r].seg_image = url,
                                      ![r].trace = <<"call_segmind">>]
    /\ UNCHANGED <<globals, now, started>>

(***************************************************************************)
(* utils/image_generator.py: call_segmind, lines 46-120.                   *)
(* `x += 1` on a module global loads the global, adds, and stores: two     *)
(* steps, between which another thread may run.                            *)
(***************************************************************************)
\* mutant: the guard compares with Getimg's 30-minute window
SegmindOnCooldown_GetimgWindow(last, t) ==
    TruthyTime(last) /\ t - last < GETIMG_COOLDOWN_SECONDS

\* mutant: the window is closed at its end (elapsed <= window)
SegmindOnCooldown_Inclusive(last, t) ==
    TruthyTime(last) /\ t - last <= SEGMIND_COOLDOWN_SECONDS

\* lines 51-53: the cooldown guard
SegmindOnCooldown(last, t) ==
    TruthyTime(last) /\ t - last < SEGMIND_COOLDOWN_SECONDS

\* what the POST to api.segmind.com can come back with
SegmindResponses ==
    { "json_url",         \* 200, JSON, output is a URL string
      "json_list",        \* 200, JSON, output is a list holding a URL
      "json_empty_list",  \* 200, JSON, output is [] (IndexError)
      "json_empty_str",   \* 200, JSON, output is ""
      "json_object",      \* 200, JSON, output is a dict or a number
      "json_no_output",   \* 200, JSON object without "output"
      "json_not_dict",    \* 200, JSON that is no object (AttributeError)
      "non_json",         \* 200, Content-Type is not application/json (raw bytes)
      "bad_json",         \* 200, application/json that does not decode
      "429", "401", "500",
      "exception" }       \* requests.post raises

\* lines 97-98: the value returned for a 200 JSON object
SegmindOutput(resp) ==
    CASE resp \in {"json_url", "json_list"} -> SegmindUrl
      [] resp = "json_empty_str" -> ""
      [] resp = "json_object" -> SegmindObject
      [] OTHER -> None

\* line 48, load
SegCallsLoad(r) ==
    /\ run[r].pc = "seg_calls_load"
    /\ run' = [run EXCEPT ![r].pc = "seg_calls_store", ![r].reg = segmind_calls]
    /\ UNCHANGED <<globals, now, started>>

\* line 48, store
SegCallsStore(r) ==
    /\ run[r].pc = "seg_calls_store"
    /\ segmind_calls' = run[r].reg + 1
    /\ run' = [run EXCEPT ![r].pc = "seg_guard", ![r].reg = 0]
    /\ UNCHANGED <<segmind_failures, getimg_calls, getimg_failures,
                   last_segmind_rate_limit_time, last_getimg_rate_limit_time,
                   now, started>>

\* lines 51-56
SegGuard(r) ==
    /\ run[r].pc = "seg_guard"
    /\ LET gate == InWindow(last_segmind_rate_limit_time, now, SEGMIND_COOLDOWN_SECONDS)
       IN  IF SegmindOnCooldown(last_segmind_rate_limit_time, now)
           THEN run' = [run EXCEPT ![r].pc = "seg_return", ![r].seg_gate = gate,
                                   ![r].seg_resp = "cooldown", ![r].seg_ret = None]
           ELSE run' = [run EXCEPT ![r].pc = "seg_post", ![r].seg_gate = gate]
    /\ UNCHANGED <<globals, now, started>>

\* lines 58-98 and 116-118: the key check, the POST and the dispatch on its answer
SegPost(r) ==
    /\ run[r].pc = "seg_post"
    /\ \E resp \in SegmindResponses \cup {"no_key"} :
         IF resp = "no_key"
         THEN \* os.getenv('SEGMIND_API_KEY') is empty: lines 60-62
              run' = [run EXCEPT ![r].pc = "seg_return", ![r].seg_resp = "no_key",
                                 ![r].seg_ret = None]
         ELSE
              LET sent == [run EXCEPT
                              ![r].seg_http = @ + 1,
                              ![r].seg_sent_cd =
                                  @ \/ InWindow(last_segmind_rate_limit_time, now,
                                                SEGMIND_COOLDOWN_SECONDS),
                              ![r].seg_resp = resp]
              IN  CASE resp \in {"json_url", "json_list", "json_empty_str",
                                 "json_object", "json_no_output"} ->
                          run' = [sent EXCEPT ![r].pc = "seg_return",
                                              ![r].seg_ret = SegmindOutput(resp)]
                    [] resp = "429" ->
                          run' = [sent EXCEPT ![r].pc = "seg_rl_time"]
                    [] OTHER ->
                          run' = [sent EXCEPT ![r].pc = "seg_fail_load"]
    /\ UNCHANGED <<globals, now, started>>

\* line 102, time.time()
SegRateLimitTime(r) ==
    /\ run[r].pc = "seg_rl_time"
    /\ run' = [run EXCEPT ![r].pc = "seg_rl_store", ![r].reg = now]
    /\ UNCHANGED <<globals, now, started>>

\* mutant: a Segmind 429 is recorded as Getimg's
SegRateLimitStore_WritesGetimgTime(r) ==
    /\ run[r].pc = "seg_rl_store"
    /\ last_getimg_rate_limit_time' = run[r].reg
    /\ run' = [run EXCEPT ![r].pc = "seg_fail_load", ![r].reg = 0]
    /\ UNCHANGED <<segmind_calls, segmind_failures, getimg_calls, getimg_failures,
                   last_segmind_rate_limit_time, now, started>>

\* mutant: after a 429 the POST is sent again
SegRateLimitStore_Retries(r) ==
    /\ run[r].pc = "seg_rl_store"
    /\ last_segmind_rate_limit_time' = run[r].reg
    /\ run' = [run EXCEPT ![r].pc = "seg_post", ![r].reg = 0]
    /\ UNCHANGED <<segmind_calls, segmind_failures, getimg_calls, getimg_failures,
                   last_getimg_rate_limit_time, now, started>>

\* line 102, store
SegRateLimitStore(r) ==
    /\ run[r].pc = "seg_rl_store"
    /\ last_segmind_rate_limit_time' = run[r].reg
    /\ run' = [run EXCEPT ![r].pc = "seg_fail_load", ![r].reg = 0]
    /\ UNCHANGED <<segmind_calls, segmind_failures, getimg_calls, getimg_failures,
                   last_getimg_rate_limit_time, now, started>>

\* lines 87, 93, 103, 108, 113, 117: segmind_failures += 1, load
SegFailLoad(r) ==
    /\ run[r].pc = "seg_fail_load"
    /\ run' = [run EXCEPT ![r].pc = "seg_fail_store", ![r].reg = segmind_failures]
    /\ UNCHANGED <<globals, now, started>>

\* segmind_failures += 1, store; then return None (89, 95, 120)
SegFailStore(r) ==
    /\ run[r].pc = "seg_fail_store"
    /\ segmind_failures' = run[r].reg + 1
    /\ run' = [run EXCEPT ![r].pc = "seg_return", ![r].seg_ret = None, ![r].reg = 0]
    /\ UNCHANGED <<segmind_calls, getimg_calls, getimg_failures,
                   last_segmind_rate_limit_time, last_getimg_rate_limit_time,
                   now, started>>

\* generate_goal_image lines 228-234: the fallback to the upload, then the
\* call of call_getimg
SegReturn(r) ==
    /\ run[r].pc = "seg_return"
    /\ LET face == IF ~Truthy(run[r].seg_ret) THEN run[r].uploaded_image_url
                   ELSE run[r].seg_ret
       IN  run' = [run EXCEPT ![r].pc = "gi_calls_load",
                              ![r].face_enhanced_url = face,
                              ![r].gi_prompt = run[r].enhanced_prompt,
                              ![r].gi_image = face,
                              ![r].trace = Append(@, "call_getimg")]
    /\ UNCHANGED <<globals, now, started>>

(***************************************************************************)
(* utils/image_generator.py: call_getimg, lines 123-200.                   *)
(***************************************************************************)
\* lines 127-129: the cooldown guard
GetimgOnCooldown(last, t) ==
    TruthyTime(last) /\ t - last < GETIMG_COOLDOWN_SECONDS

\* requests.get needs an http(s) URL; anything else raises before a request is sent
IsUrl(v) == v \in {UploadedUrl, SegmindUrl}

\* what one model's POST to api.getimg.ai can come back with
GetimgResponses ==
    { "ok",          \* 200, JSON with data[0].url
      "bad_json",    \* 200, body does not decode (ValueError)
      "bad_shape",   \* 200, JSON without data[0].url (KeyError, IndexError, TypeError)
      "429", "500",
      "exception" }  \* requests.post raises

\* mutant: a 429 is handled like any other failed status
GetimgDispatch_429Continues(resp) ==
    CASE resp = "ok" -> "return"
      [] resp = "bad_json" -> "count_continue"
      [] resp \in {"429", "500"} -> "continue"
      [] OTHER -> "raise"

\* mutant: a 200 is logged but the URL is not returned
GetimgDispatch_OkContinues(resp) ==
    CASE resp = "ok" -> "continue"
      [] resp = "bad_json" -> "count_continue"
      [] resp = "429" -> "rate_limit"
      [] resp = "500" -> "continue"
      [] OTHER -> "raise"

\* lines 173-191: what the loop body does with the answer of one POST:
\* "return" the URL, "continue" with the next model after counting a failure
\* ("count_continue") or without ("continue"), record the "rate_limit",
\* or leave the loop through the function's `except Exception` ("raise")
GetimgDispatch(resp) ==
    CASE resp = "ok" -> "return"
      [] resp = "bad_json" -> "count_continue"
      [] resp = "429" -> "rate_limit"
      [] resp = "500" -> "continue"
      [] OTHER -> "raise"

\* line 152: the next iteration of `for model_name in fallback_models`, or
\* line 193 once the list is exhausted
GetimgNextPc(i, models) == IF i < Len(models) THEN "gi_post" ELSE "gi_fail_load"

\* line 125, load
GiCallsLoad(r) ==
    /\ run[r].pc = "gi_calls_load"
    /\ run' = [run EXCEPT ![r].pc = "gi_calls_store", ![r].reg = getimg_calls]
    /\ UNCHANGED <<globals, now, started>>

\* line 125, store
GiCallsStore(r) ==
    /\ run[r].pc = "gi_calls_store"
    /\ getimg_calls' = run[r].reg + 1
    /\ run' = [run EXCEPT ![r].pc = "gi_guard", ![r].reg = 0]
    /\ UNCHANGED <<segmind_calls, segmind_failures, getimg_failures,
                   last_segmind_rate_limit_time, last_getimg_rate_limit_time,
                   now, started>>

\* lines 127-132
GiGuard(r) ==
    /\ run[r].pc = "gi_guard"
    /\ LET gate == InWindow(last_getimg_rate_limit_time, now, GETIMG_COOLDOWN_SECONDS)
       IN  IF GetimgOnCooldown(last_getimg_rate_limit_time, now)
           THEN run' = [run EXCEPT ![r].pc = "gi_return", ![r].gi_gate = gate,
                                   ![r].gi_ret = None]
           ELSE run' = [run EXCEPT ![r].pc = "gi_download", ![r].gi_gate = gate]
    /\ UNCHANGED <<globals, now, started>>

\* lines 136-143: download the input image, then build the headers with
\* whatever os.getenv('GETIMG_API_KEY') returns (no check of the value)
GiDownload(r) ==
    /\ run[r].pc = "gi_download"
    /\ IF ~IsUrl(run[r].gi_image)
       THEN run' = [run EXCEPT ![r].pc = "gi_fail_load"]
       ELSE \E ok \in BOOLEAN : \E unset \in (IF ok THEN BOOLEAN ELSE {FALSE}) :
              run' = [run EXCEPT
                         ![r].pc = IF ok THEN "gi_post" ELSE "gi_fail_load",
                         ![r].mi = IF ok THEN 1 ELSE 0,
                         ![r].gi_dl = @ + 1,
                         ![r].gi_no_key = unset,
                         ![r].gi_sent_cd =
                             @ \/ InWindow(last_getimg_rate_limit_time, now,
                                           GETIMG_COOLDOWN_SECONDS)]
    /\ UNCHANGED <<globals, now, started>>

\* lines 152-191: one iteration of the loop, the POST for fallback_models[mi]
GiPost(r) ==
    /\ run[r].pc = "gi_post"
    /\ \E resp \in GetimgResponses :
          LET sent == [run EXCEPT
                          ![r].gi_log = Append(@, [model |-> fallback_models[run[r].mi],
                                                      resp |-> resp]),
                          ![r].gi_sent_cd =
                              @ \/ InWindow(last_getimg_rate_limit_time, now,
                                            GETIMG_COOLDOWN_SECONDS)]
              d == GetimgDispatch(resp)
          IN  CASE d = "return" ->
                      run' = [sent EXCEPT ![r].pc = "gi_return",
                                          ![r].gi_ret = GetimgUrl(fallback_models[run[r].mi])]
                [] d = "count_continue" ->
                      run' = [sent EXCEPT ![r].pc = "gi_dfail_load"]
                [] d = "rate_limit" ->
                      run' = [sent EXCEPT ![r].pc = "gi_rl_time"]
                [] d = "continue" ->
                      run' = [sent EXCEPT
                                 ![r].pc = GetimgNextPc(run[r].mi, fallback_models),
                                 ![r].mi = @ + 1]
                [] OTHER ->
                      run' = [sent EXCEPT ![r].pc = "gi_fail_load"]
    /\ UNCHANGED <<globals, now, started>>

\* line 177, load
GiDecodeFailLoad(r) ==
    /\ run[r].pc = "gi_dfail_load"
    /\ run' = [run EXCEPT ![r].pc = "gi_dfail_store", ![r].reg = getimg_failures]
    /\ UNCHANGED <<globals, now, started>>

\* line 177, store; line 179, continue
GiDecodeFailStore(r) ==
    /\ run[r].pc = "gi_dfail_store"
    /\ getimg_failures' = run[r].reg + 1
    /\ run' = [run EXCEPT ![r].pc = GetimgNextPc(run[r].mi, fallback_models),
                          ![r].mi = @ + 1, ![r].reg = 0]
    /\ UNCHANGED <<segmind_calls, segmind_failures, getimg_calls,
                   last_segmind_rate_limit_time, last_getimg_rate_limit_time,
                   now, started>>

\* line 185, time.time()
GiRateLimitTime(r) ==
    /\ run[r].pc = "gi_rl_time"
    /\ run' = [run EXCEPT ![r].pc = "gi_rl_store", ![r].reg = now]
    /\ UNCHANGED <<globals, now, started>>

\* line 185, store
GiRateLimitStore(r) ==
    /\ run[r].pc = "gi_rl_store"
    /\ last_getimg_rate_limit_time' = run[r].reg
    /\ run' = [run EXCEPT ![r].pc = "gi_fail_load", ![r].reg = 0]
    /\ UNCHANGED <<segmind_calls, segmind_failures, getimg_calls, getimg_failures,
                   last_segmind_rate_limit_time, now, started>>

\* lines 186, 193, 197: getimg_failures += 1, load
GiFailLoad(r) ==
    /\ run[r].pc = "gi_fail_load"
    /\ run' = [run EXCEPT ![r].pc = "gi_fail_store", ![r].reg = getimg_failures]
    /\ UNCHANGED <<globals, now, started>>

\* getimg_failures += 1, store; then return None (188, 200)
GiFailStore(r) ==
    /\ run[r].pc = "gi_fail_store"
    /\ getimg_failures' = run[r].reg + 1
    /\ run' = [run EXCEPT ![r].pc = "gi_return", ![r].gi_ret = None, ![r].reg = 0]
    /\ UNCHANGED <<segmind_calls, segmind_failures, getimg_calls,
                   last_segmind_rate_limit_time, last_getimg_rate_limit_time,
                   now, started>>

\* generate_goal_image lines 234-239: the fallback to the face-enhanced
\* image, then the return
GiReturn(r) ==
    /\ run[r].pc = "gi_return"
    /\ run' = [run EXCEPT ![r].pc = "done",
                          ![r].result = IF ~Truthy(run[r].gi_ret)
                                        THEN run[r].face_enhanced_url
                                        ELSE run[r].gi_ret]
    /\ UNCHANGED <<globals, now, started>>

(***************************************************************************)
(* Specifications of utils/image_generator.py.                             *)
(***************************************************************************)
\* one step of the generate_goal_image call that thread r serves
Step(r) ==
    \/ Start(r) \/ Source(r)
    \/ SegCallsLoad(r) \/ SegCallsStore(r) \/ SegGuard(r) \/ SegPost(r)
    \/ SegRateLimitTime(r) \/ SegRateLimitStore(r)
    \/ SegFailLoad(r) \/ SegFailStore(r) \/ SegReturn(r)
    \/ GiCallsLoad(r) \/ GiCallsStore(r) \/ GiGuard(r) \/ GiDownload(r) \/ GiPost(r)
    \/ GiDecodeFailLoad(r) \/ GiDecodeFailStore(r)
    \/ GiRateLimitTime(r) \/ GiRateLimitStore(r)
    \/ GiFailLoad(r) \/ GiFailStore(r) \/ GiReturn(r)

\* requests served one after another
Next == Tick \/ \E r \in SeqRuns : Step(r)
Spec == Init /\ [][Next]_vars

\* a step of a call in progress: every step but the arrival of a request
Advance(r) ==
    \/ Source(r)
    \/ SegCallsLoad(r) \/ SegCallsStore(r) \/ SegGuard(r) \/ SegPost(r)
    \/ SegRateLimitTime(r) \/ SegRateLimitStore(r)
    \/ SegFailLoad(r) \/ SegFailStore(r) \/ SegReturn(r)
    \/ GiCallsLoad(r) \/ GiCallsStore(r) \/ GiGuard(r) \/ GiDownload(r) \/ GiPost(r)
    \/ GiDecodeFailLoad(r) \/ GiDecodeFailStore(r)
    \/ GiRateLimitTime(r) \/ GiRateLimitStore(r)
    \/ GiFailLoad(r) \/ GiFailStore(r) \/ GiReturn(r)

\* Spec with a thread that keeps running: the interpreter executes the next
\* statement of a call in progress, and every HTTP request it sends is
\* answered or raises
SpecLive == Init /\ [][Next]_vars /\ \A r \in SeqRuns : WF_vars(Advance(r))

\* What is explored when threads run concurrently: one tick of the clock, a
\* valid upload, both API keys set, of Segmind a URL or a 429, of each Getimg
\* model a URL or a 429, and an undecodable body from the first model only.
ConcAnswers ==
    /\ now <= ClockStart + TickSeconds
    /\ \A r \in Runs :
        /\ run[r].src \in {"none", "uploaded"}
        /\ ~GenderRaises(run[r].req.gender)
        /\ run[r].seg_resp \in {"none", "cooldown", "json_url", "429"}
        /\ ~run[r].gi_no_key
        /\ \A i \in 1..Len(run[r].gi_log) :
              run[r].gi_log[i].resp \in (IF i = 1 THEN {"ok", "429", "bad_json"} ELSE {"ok", "429"})

\* requests served by concurrent threads
NextConc == (Tick /\ ConcAnswers') \/ \E r \in Runs : (Step(r) /\ ConcAnswers')
SpecConc == Init /\ [][NextConc]_vars

(***************************************************************************)
(* webhook.py: generate_goal_image and its nested build_prompt,            *)
(* call_segmind and call_getimg (lines 125-326), the function              *)
(* handle_webhook calls (line 361).  The requests of SpecWebhook are       *)
(* served one after another, so a `x += 1` is one step.                    *)
(***************************************************************************)
\* lines 286-308: download, verify, upload, build_prompt
W_Source(r) ==
    /\ run[r].pc = "source"
    /\ \E o \in SourceOutcomes :
          LET bp == build_prompt(BasePrompt, run[r].req.gender,
                                 run[r].req.current_weight, run[r].req.desired_weight)
          IN  IF SourceFatal(o)
              THEN run' = [run EXCEPT ![r].pc = "done", ![r].src = o,
                                      ![r].uploads = IF o = "upload_error" THEN 1 ELSE 0,
                                      ![r].result = None]
              ELSE IF bp.raised
              THEN \* AttributeError caught by `except Exception` (324-326)
                   run' = [run EXCEPT ![r].pc = "done", ![r].src = o, ![r].uploads = 1,
                                      ![r].uploaded_image_url = UploadedUrl,
                                      ![r].result = None]
              ELSE run' = [run EXCEPT ![r].pc = "w_seg", ![r].src = o,
                                      ![r].uploads = 1,
                                      ![r].uploaded_image_url = UploadedUrl,
                                      ![r].enhanced_prompt = bp.prompt,
                                      ![r].seg_prompt = bp.prompt,
                                      ![r].seg_image = UploadedUrl,
                                      ![r].trace = <<"call_segmind">>]
    /\ UNCHANGED <<globals, now, started>>

\* lines 191-208: what call_segmind does with the answer of its POST:
\* "return" the output, record the "rate_limit", or count a "failure"
\* (response.json() raising on a body that is no JSON included)
W_SegmindDispatch(resp) ==
    CASE resp \in {"json_url", "json_list", "json_empty_str",
                   "json_object", "json_no_output"} -> "return"
      [] resp = "429" -> "rate_limit"
      [] OTHER -> "failure"

\* lines 310-316: generate_goal_image returns a truthy call_segmind result,
\* and calls call_getimg with the uploaded image otherwise
W_AfterSegmind(rn, ret) ==
    IF Truthy(ret)
    THEN [rn EXCEPT !.pc = "done", !.seg_ret = ret, !.result = ret]
    ELSE [rn EXCEPT !.pc = "w_gi_enter", !.seg_ret = ret,
                    !.gi_prompt = rn.enhanced_prompt,
                    !.gi_image = rn.uploaded_image_url,
                    !.trace = Append(@, "call_getimg")]

\* lines 164-210, then 310-316: call_segmind, which has no cooldown guard
W_CallSegmind(r) ==
    /\ run[r].pc = "w_seg"
    /\ segmind_calls' = segmind_calls + 1
    /\ \E resp \in SegmindResponses \cup {"no_key"} :
         LET gate == InWindow(last_segmind_rate_limit_time, now, SEGMIND_COOLDOWN_SECONDS)
             entered == [run[r] EXCEPT !.seg_gate = gate, !.seg_resp = resp]
             sent == [entered EXCEPT !.seg_http = @ + 1, !.seg_sent_cd = gate]
             d == W_SegmindDispatch(resp)
         IN  IF resp = "no_key"
             THEN /\ run' = [run EXCEPT ![r] = W_AfterSegmind(entered, None)]
                  /\ UNCHANGED <<segmind_failures, last_segmind_rate_limit_time>>
             ELSE IF d = "return"
             THEN /\ run' = [run EXCEPT ![r] = W_AfterSegmind(sent, SegmindOutput(resp))]
                  /\ UNCHANGED <<segmind_failures, last_segmind_rate_limit_time>>
             ELSE /\ run' = [run EXCEPT ![r] = W_AfterSegmind(sent, None)]
                  /\ segmind_failures' = segmind_failures + 1
                  /\ last_segmind_rate_limit_time' =
                        IF d = "rate_limit" THEN now ELSE last_segmind_rate_limit_time
    /\ UNCHANGED <<getimg_calls, getimg_failures, last_getimg_rate_limit_time,
                   now, started>>

\* lines 261-273: what the loop body does with the answer of one POST;
\* response.json() raising leaves the loop through `except Exception`
W_GetimgDispatch(resp) ==
    CASE resp = "ok" -> "return"
      [] resp = "429" -> "rate_limit"
      [] resp = "500" -> "continue"
      [] OTHER -> "raise"

\* lines 212-231: the counter, the cooldown guard, the image download and
\* the headers built from os.environ.get('GETIMG_API_KEY')
W_GetimgEnter(r) ==
    /\ run[r].pc = "w_gi_enter"
    /\ getimg_calls' = getimg_calls + 1
    /\ LET gate == InWindow(last_getimg_rate_limit_time, now, GETIMG_COOLDOWN_SECONDS)
       IN  IF GetimgOnCooldown(last_getimg_rate_limit_time, now)
           THEN /\ run' = [run EXCEPT ![r].pc = "done", ![r].gi_gate = gate,
                                      ![r].gi_ret = None, ![r].result = None]
                /\ UNCHANGED getimg_failures
           ELSE \E ok \in BOOLEAN : \E unset \in (IF ok THEN BOOLEAN ELSE {FALSE}) :
                  IF ok
                  THEN /\ run' = [run EXCEPT ![r].pc = "w_gi_post", ![r].gi_gate = gate,
                                             ![r].mi = 1, ![r].gi_dl = @ + 1,
                                             ![r].gi_no_key = unset,
                                             ![r].gi_sent_cd = gate]
                       /\ UNCHANGED getimg_failures
                  ELSE /\ run' = [run EXCEPT ![r].pc = "done", ![r].gi_gate = gate,
                                             ![r].gi_dl = @ + 1, ![r].gi_sent_cd = gate,
                                             ![r].gi_ret = None, ![r].result = None]
                       /\ getimg_failures' = getimg_failures + 1
    /\ UNCHANGED <<segmind_calls, segmind_failures, last_segmind_rate_limit_time,
                   last_getimg_rate_limit_time, now, started>>

\* lines 240-282, then 316-319: one iteration of the loop, the POST for
\* fallback_models[mi]; generate_goal_image returns what call_getimg returns
W_GetimgPost(r) ==
    /\ run[r].pc = "w_gi_post"
    /\ \E resp \in GetimgResponses :
          LET sent == [run[r] EXCEPT
                          !.gi_log = Append(@, [model |-> W_fallback_models[run[r].mi],
                                                   resp |-> resp]),
                          !.gi_sent_cd =
                              @ \/ InWindow(last_getimg_rate_limit_time, now,
                                            GETIMG_COOLDOWN_SECONDS)]
              d == W_GetimgDispatch(resp)
              url == GetimgUrl(W_fallback_models[run[r].mi])
              last == run[r].mi = Len(W_fallback_models)
          IN  CASE d = "return" ->
                      /\ run' = [run EXCEPT ![r] = [sent EXCEPT !.pc = "done",
                                                       !.gi_ret = url, !.result = url]]
                      /\ UNCHANGED <<getimg_failures, last_getimg_rate_limit_time>>
                [] d = "continue" /\ ~last ->
                      /\ run' = [run EXCEPT ![r] = [sent EXCEPT !.mi = @ + 1]]
                      /\ UNCHANGED <<getimg_failures, last_getimg_rate_limit_time>>
                [] OTHER ->
                      /\ run' = [run EXCEPT ![r] = [sent EXCEPT !.pc = "done",
                                                       !.mi = IF d = "continue" THEN @ + 1 ELSE @,
                                                       !.gi_ret = None, !.result = None]]
                      /\ getimg_failures' = getimg_failures + 1
                      /\ last_getimg_rate_limit_time' =
                            IF d = "rate_limit" THEN now ELSE last_getimg_rate_limit_time
    /\ UNCHANGED <<segmind_calls, segmind_failures, getimg_calls,
                   last_segmind_rate_limit_time, now, started>>

\* one step of the webhook.py generate_goal_image call that thread r serves
W_Step(r) ==
    \/ Start(r) \/ W_Source(r) \/ W_CallSegmind(r) \/ W_GetimgEnter(r) \/ W_GetimgPost(r)

NextWebhook == Tick \/ \E r \in SeqRuns : W_Step(r)
SpecWebhook == Init /\ [][NextWebhook]_vars

(***************************************************************************)
(* webhook.py: handle_webhook (lines 333-394) with the helpers it calls:   *)
(* get_field_value, calculate_age, pounds_to_kg (webhook.py 69-98),        *)
(* generate_goal_image (above), generate_workout_plan and                  *)
(* create_pdf_with_workout (fitness_utils.py), send_email.                 *)
(***************************************************************************)
\* the request bodies: kind of the body, and for a body with data.fields the
\* value of each form field (PyAbsent: the form has no such field)
Bodies ==
    { "not_json",             \* get_json(force=True) raises
      "null",                 \* JSON null (also {}, [], 0, "")
      "object_without_data",  \* {"event": ...}
      "data_null",            \* {"data": null}
      "data_without_fields",  \* {"data": {}}
      "fields" }              \* {"data": {"fields": [...]}}

NoFields ==
    [email |-> PyAbsent, gender |-> PyAbsent, date_of_birth |-> PyAbsent,
     photo |-> PyAbsent, current_weight |-> PyAbsent, desired_weight |-> PyAbsent]

FormFields ==
    [email : {PyAbsent, PyStr(<<"a", "@", "b">>)},
     gender : {PyAbsent, PyStr(<<"F", "e", "m", "a", "l", "e">>)},
     date_of_birth : {PyAbsent, PyStr(<<"1", "9", "9", "0", "-", "1", "2", "-", "2", "5">>)},
     photo : {PyAbsent, PyStr(<<"u", "r", "l">>)},
     current_weight : {PyAbsent, PyNum(150)},
     desired_weight : {PyAbsent, PyNum(140)}]

Payloads ==
    { [body |-> b, fields |-> NoFields] : b \in Bodies \ {"fields"} }
      \cup { [body |-> "fields", fields |-> f] : f \in FormFields }

\* lines 84-98: the value of the first field whose label has the keyword,
\* None when there is none
get_field_value(fields, key) == IF fields[key] = PyAbsent THEN PyNone ELSE fields[key]

\* datetime.today()
Today == [year |-> 2026, month |-> 11, day |-> 1]

\* lines 69-76: strptime(birthdate_str, "%Y-%m-%d"), then the age in whole
\* years; None when strptime raises
calculate_age(birthdate_str) ==
    LET b == birthdate_str
        wellFormed ==
            /\ b.t = "str" /\ Len(b.s) = 10
            /\ b.s[5] = "-" /\ b.s[8] = "-"
            /\ \A i \in {1, 2, 3, 4, 6, 7, 9, 10} : IsDigit(b.s[i])
        y == ParseNat(SubSeq(b.s, 1, 4))
        m == ParseNat(SubSeq(b.s, 6, 7))
        d == ParseNat(SubSeq(b.s, 9, 10))
    IN  IF wellFormed /\ y >= 1 /\ m \in 1..12 /\ d \in 1..28
        THEN PyNum(Today.year - y
                     - (IF Today.month < m \/ (Today.month = m /\ Today.day < d)
                        THEN 1 ELSE 0))
        ELSE PyNone

\* lines 78-82: round(float(lbs) * 0.453592, 2), in hundredths of a
\* kilogram; None when float() raises
pounds_to_kg(lbs) ==
    IF Float(lbs).ok
    THEN PyNum((Float(lbs).val * 453592 + 5000) \div 10000)
    ELSE PyNone

\* line 343: `not data or 'data' not in data or 'fields' not in data['data']`:
\* "reject", "accept", or "raise" (TypeError: `in` applied to None)
PayloadCheck(body) ==
    CASE body \in {"null", "object_without_data", "data_without_fields"} -> "reject"
      [] body = "data_null" -> "raise"
      [] OTHER -> "accept"

\* fitness_utils.py 101-106: f"{current_weight_kg:.1f}" raises TypeError
\* when the weight is None
PlanFormatRaises(current_weight_kg, desired_weight_kg) ==
    current_weight_kg.t # "num" \/ desired_weight_kg.t # "num"

\* lines 334-361: parse and check the body, extract the fields, convert,
\* and call generate_goal_image
H_Receive(r) ==
    /\ run[r].h.pc \in {"idle", "answered"}
    /\ started < MaxRequests
    /\ started' = started + 1
    /\ \E p \in Payloads :
         LET answer(code) ==
                 [IdleRun EXCEPT !.h.pc = "answered", !.h.body = p.body, !.h.status = code]
             f == p.fields
             cw == get_field_value(f, "current_weight")
             dw == get_field_value(f, "desired_weight")
             photo == get_field_value(f, "photo")
             called ==
                 [IdleRun EXCEPT
                     !.req = [gender |-> get_field_value(f, "gender"),
                              current_weight |-> cw, desired_weight |-> dw],
                     !.entry = globals,
                     !.h.pc = "image", !.h.body = p.body,
                     !.h.email = get_field_value(f, "email"),
                     !.h.photo_url = photo,
                     !.h.age = calculate_age(get_field_value(f, "date_of_birth")),
                     !.h.current_weight_kg = pounds_to_kg(cw),
                     !.h.desired_weight_kg = pounds_to_kg(dw)]
         IN  IF p.body = "not_json"
             THEN run' = [run EXCEPT ![r] = answer(400)]
             ELSE IF PayloadCheck(p.body) = "reject"
             THEN run' = [run EXCEPT ![r] = answer(400)]
             ELSE IF PayloadCheck(p.body) = "raise"
             THEN \* unhandled exception: Flask answers 500
                  run' = [run EXCEPT ![r] = answer(500)]
             ELSE IF ~PyTruthy(photo)
             THEN \* requests.get(None) raises inside generate_goal_image (288, 324-326)
                  run' = [run EXCEPT ![r] = [called EXCEPT !.pc = "done",
                                                          !.src = "fetch_error"]]
             ELSE run' = [run EXCEPT ![r] = [called EXCEPT !.pc = "source"]]
    /\ UNCHANGED <<globals, now>>

\* lines 361-363: generate_goal_image has returned (its locals are gone),
\* then generate_workout_plan; OpenAI answers with a plan, or both models
\* fail and the apology is returned
H_Plan(r) ==
    /\ run[r].h.pc = "image" /\ run[r].pc = "done"
    /\ LET returned == [run[r].h EXCEPT !.image_url = run[r].result]
       IN  IF PlanFormatRaises(run[r].h.current_weight_kg, run[r].h.desired_weight_kg)
           THEN \* unhandled TypeError: Flask answers 500
                run' = [run EXCEPT ![r] =
                           [IdleRun EXCEPT !.h = [returned EXCEPT !.pc = "answered",
                                                                  !.status = 500]]]
           ELSE \E plan \in {"plan", "overloaded"} :
                  run' = [run EXCEPT ![r] =
                             [IdleRun EXCEPT !.h = [returned EXCEPT !.pc = "pdf",
                                                                    !.plan = plan]]]
    /\ UNCHANGED <<globals, now, started>>

\* line 364: create_pdf_with_workout returns the URL of the PDF, or None
\* when the image cannot be fetched or the upload fails
H_Pdf(r) ==
    /\ run[r].h.pc = "pdf"
    /\ \E pdf \in (IF Truthy(run[r].h.image_url) THEN {"url", "none"} ELSE {"none"}) :
          run' = [run EXCEPT ![r].h.pc = "respond", ![r].h.pdf = pdf]
    /\ UNCHANGED <<globals, now, started>>

\* lines 369-394: send the email when an address was found, answer 200;
\* send_email catches what SMTP raises
H_Respond(r) ==
    /\ run[r].h.pc = "respond"
    /\ run' = [run EXCEPT ![r].h.pc = "answered", ![r].h.status = 200,
                          ![r].h.sent = IF PyTruthy(run[r].h.email) THEN @ + 1 ELSE @]
    /\ UNCHANGED <<globals, now, started>>

H_Step(r) ==
    \/ H_Receive(r)
    \/ (run[r].h.pc = "image" /\
           (W_Source(r) \/ W_CallSegmind(r) \/ W_GetimgEnter(r) \/ W_GetimgPost(r)))
    \/ H_Plan(r) \/ H_Pdf(r) \/ H_Respond(r)

NextHandle == Tick \/ \E r \in SeqRuns : H_Step(r)
SpecHandle == Init /\ [][NextHandle]_vars

(***************************************************************************)
(* build_prompt on its own (utils/image_generator.py 17-43): every         *)
(* behaviour of SpecPrompt is one call, build_prompt(base_prompt, gender,  *)
(* current_weight, desired_weight) or the same with a fifth argument       *)
(* height=..., with the arguments drawn from the sets below.               *)
(***************************************************************************)
UpperOf(c) ==
    IF \E i \in 1..26 : Lower[i] = c
    THEN Upper[CHOOSE i \in 1..26 : Lower[i] = c]
    ELSE c
\* every way of writing a lower-case word in upper- and lower-case letters
CaseVariants(word) ==
    { [i \in 1..Len(word) |-> IF i \in S THEN UpperOf(word[i]) ELSE word[i]] :
        S \in SUBSET (1..Len(word)) }

MaleWords == {<<"m", "a", "l", "e">>, <<"m", "a", "n">>}
FemaleWords == {<<"f", "e", "m", "a", "l", "e">>, <<"w", "o", "m", "a", "n">>}

\* gender arguments: the four words in every letter case, other strings,
\* the empty string, None, 0, and truthy values that are no strings
PromptGenders ==
    { PyStr(v) : v \in UNION { CaseVariants(w) : w \in MaleWords \cup FemaleWords } }
      \cup { PyStr(<<"o", "t", "h", "e", "r">>), PyStr(<<"m", "a", "l", "e", "s">>),
             PyStr(<<"M", "e", "n">>), PyStr(<<>>), PyNone, PyNum(0), PyNum(5), PyObj }

\* weight arguments: numbers, None, decimal strings, and values float() rejects
PromptWeights ==
    { PyNum(w) : w \in 0..MaxWeight }
      \cup { PyNone, PyStr(<<>>), PyStr(<<"3">>), PyStr(<<"-", "2">>),
             PyStr(<<"a", "b", "c">>), PyObj }

\* the height argument: not passed, or a number of centimetres
PromptHeights == { PyAbsent, PyNum(170) }

PromptCalls ==
    [gender : PromptGenders, current_weight : PromptWeights,
     desired_weight : PromptWeights, height : PromptHeights]

\* line 17: the signature has no height parameter, so a call that passes
\* one raises TypeError before the body runs
build_prompt_call(base_prompt, args) ==
    IF args.height # PyAbsent THEN [raised |-> TRUE, prompt |-> NoPrompt]
    ELSE build_prompt(base_prompt, args.gender, args.current_weight, args.desired_weight)

InitPrompt ==
    /\ segmind_calls = 0 /\ segmind_failures = 0
    /\ getimg_calls = 0 /\ getimg_failures = 0
    /\ last_segmind_rate_limit_time = NoTime
    /\ last_getimg_rate_limit_time = NoTime
    /\ now = ClockStart
    /\ started = 0
    /\ \E a \in PromptCalls :
          run = [r \in Runs |-> IF r \in SeqRuns
                                THEN [IdleRun EXCEPT !.pc = "bp_call", !.req = a]
                                ELSE IdleRun]

\* the call: it returns the prompt or raises
BuildPromptCall(r) ==
    /\ run[r].pc = "bp_call"
    /\ LET out == build_prompt_call(BasePrompt, run[r].req)
       IN  run' = [run EXCEPT ![r].pc = IF out.raised THEN "bp_raised" ELSE "bp_returned",
                              ![r].enhanced_prompt = out.prompt]
    /\ UNCHANGED <<globals, now, started>>

NextPrompt == \E r \in SeqRuns : BuildPromptCall(r)
SpecPrompt == InitPrompt /\ [][NextPrompt]_vars

(***************************************************************************)
(* Properties.                                                             *)
(***************************************************************************)
\* positions of call_segmind after its cooldown guard let the call through
SegmindCalling == {"seg_post", "seg_rl_time", "seg_rl_store", "seg_fail_load", "seg_fail_store"}
\* positions at which call_getimg has returned
GetimgReturned == {"gi_return", "done"}
\* the responses of the model POSTs of thread r's call_getimg
GetimgAnswers(r) == {run[r].gi_log[k].resp : k \in 1..Len(run[r].gi_log)}

\* C1: (Spec, requests one after another) a provider client invoked while a
\* recorded 429 of its provider is less than the provider's window old
\* returns None and sends nothing: call_segmind no POST, call_getimg neither
\* the image download nor any model POST.
C1_CooldownRejectsLocally ==
    \A r \in Runs :
        /\ run[r].seg_gate =>
              /\ run[r].pc \notin SegmindCalling
              /\ run[r].seg_http = 0
              /\ run[r].seg_ret = None
        /\ run[r].gi_gate =>
              /\ run[r].pc \in GetimgReturned
              /\ run[r].gi_dl = 0
              /\ run[r].gi_log = <<>>
              /\ run[r].gi_ret = None

\* a second request, started later than the 429s of the first and inside
\* both windows, has gone through both clients
C1_Witness ==
    \E r \in Runs :
        /\ run[r].pc = "done" /\ run[r].seg_gate /\ run[r].gi_gate
        /\ now > last_segmind_rate_limit_time
        /\ now > last_getimg_rate_limit_time

\* C2: (SpecConc, concurrent threads) no HTTP request goes to a provider
\* while a recorded 429 of that provider is less than its window old.
C2_GateRaceFree ==
    \A r \in Runs : ~run[r].seg_sent_cd /\ ~run[r].gi_sent_cd

\* C3: once the source image is uploaded, generate_goal_image returns a
\* value that is not None, whatever the request and the providers do.
C3_NeverNoneAfterUpload ==
    \A r \in Runs :
        (run[r].pc = "done" /\ run[r].src = "uploaded") => Truthy(run[r].result)

\* C4: a run that passed source validation has invoked call_segmind, then
\* call_getimg, both with the composed prompt, and call_getimg with the
\* URL call_segmind returned or else with the uploaded URL.
C4_StagesInOrder ==
    \A r \in Runs :
        (run[r].pc = "done" /\ run[r].src = "uploaded") =>
            /\ run[r].trace = <<"call_segmind", "call_getimg">>
            /\ run[r].enhanced_prompt # NoPrompt
            /\ run[r].seg_prompt = run[r].enhanced_prompt
            /\ run[r].gi_prompt = run[r].enhanced_prompt
            /\ run[r].seg_image = run[r].uploaded_image_url
            /\ run[r].gi_image = IF Truthy(run[r].seg_ret) THEN run[r].seg_ret
                                 ELSE run[r].uploaded_image_url
            /\ (run[r].seg_resp = "429" => run[r].gi_image = run[r].uploaded_image_url)

\* the value C5 names: the latest stage that yielded a URL
BestImage(r) ==
    IF Truthy(run[r].gi_ret) THEN run[r].gi_ret
    ELSE IF Truthy(run[r].seg_ret) THEN run[r].seg_ret
    ELSE run[r].uploaded_image_url

\* C5: after a validated upload generate_goal_image returns the Getimg URL
\* if call_getimg yielded one, else the Segmind URL if call_segmind yielded
\* one, else the uploaded URL.
C5_ReturnsBestImage ==
    \A r \in Runs :
        (run[r].pc = "done" /\ run[r].src = "uploaded") => run[r].result = BestImage(r)

\* C4 and C5 for the requests on which build_prompt does not raise
C4_C5_WhenPromptComposed ==
    \A r \in Runs :
        (run[r].pc = "done" /\ run[r].src = "uploaded" /\ ~GenderRaises(run[r].req.gender)) =>
            /\ run[r].trace = <<"call_segmind", "call_getimg">>
            /\ run[r].gi_image = IF Truthy(run[r].seg_ret) THEN run[r].seg_ret
                                 ELSE run[r].uploaded_image_url
            /\ run[r].result = BestImage(r)

\* C6: (Spec) when the source fetch fails or the bytes are no image,
\* generate_goal_image returns None, has invoked neither client and sent no
\* provider request, has uploaded nothing in the undecodable case, and the
\* counters and rate-limit timestamps are as they were when it was called.
C6_SourceFailureTouchesNothing ==
    \A r \in Runs :
        (run[r].pc = "done" /\ run[r].src \in {"fetch_error", "not_image"}) =>
            /\ run[r].result = None
            /\ run[r].trace = <<>>
            /\ run[r].seg_http = 0 /\ run[r].gi_dl = 0 /\ run[r].gi_log = <<>>
            /\ run[r].uploads = 0
            /\ globals = run[r].entry

\* an undecodable source in a request that follows one that reached the providers
C6_Witness ==
    \E r \in Runs :
        /\ run[r].pc = "done" /\ run[r].src = "not_image"
        /\ segmind_calls > 0 /\ getimg_failures > 0
        /\ last_getimg_rate_limit_time # NoTime

\* C7: when a model's POST is answered 429, no further model is attempted
\* in that invocation, the rate-limit time is recorded, and call_getimg
\* returns None.
C7_RateLimitAbortsChain ==
    \A r \in Runs :
        \A k \in 1..Len(run[r].gi_log) :
            run[r].gi_log[k].resp = "429" =>
                /\ k = Len(run[r].gi_log)
                /\ run[r].pc \in {"gi_rl_time", "gi_rl_store", "gi_fail_load",
                                  "gi_fail_store"} \cup GetimgReturned
                /\ run[r].pc \in {"gi_fail_load", "gi_fail_store"} \cup GetimgReturned =>
                      /\ last_getimg_rate_limit_time # NoTime
                      /\ last_getimg_rate_limit_time <= now
                      /\ GetimgOnCooldown(last_getimg_rate_limit_time,
                                          last_getimg_rate_limit_time)
                /\ run[r].pc \in GetimgReturned => run[r].gi_ret = None

\* the second model answered 429 after the first failed: the third was not tried
C7_Witness ==
    \E r \in Runs :
        /\ run[r].pc = "done" /\ Len(run[r].gi_log) = 2
        /\ run[r].gi_log[1].resp = "500" /\ run[r].gi_log[2].resp = "429"

\* C8: call_getimg returns None for failures other than a 429 only after
\* every model of the list has been tried.
C8_OrdinaryFailureTriesNextModel ==
    \A r \in Runs :
        ( /\ run[r].pc \in GetimgReturned
          /\ run[r].gi_log # <<>>
          /\ run[r].gi_ret = None
          /\ "429" \notin GetimgAnswers(r) ) =>
            Len(run[r].gi_log) = Len(fallback_models)

\* C9: the models are tried in list order, nothing is tried after a 200
\* with a URL, and that URL is what call_getimg returns.
C9_FirstSuccessWins ==
    \A r \in Runs :
        /\ Len(run[r].gi_log) <= Len(fallback_models)
        /\ \A k \in 1..Len(run[r].gi_log) :
              /\ run[r].gi_log[k].model = fallback_models[k]
              /\ run[r].gi_log[k].resp = "ok" =>
                    /\ k = Len(run[r].gi_log)
                    /\ run[r].pc \in GetimgReturned
                    /\ run[r].gi_ret = GetimgUrl(fallback_models[k])
        /\ Truthy(run[r].gi_ret) => "ok" \in GetimgAnswers(r)

\* the second model succeeded after the first failed
C9_Witness ==
    \E r \in Runs :
        /\ run[r].pc = "done" /\ Len(run[r].gi_log) = 2
        /\ run[r].gi_log[1].resp = "bad_json" /\ run[r].gi_log[2].resp = "ok"
        /\ run[r].result = GetimgUrl(fallback_models[2])

\* C10: (SpecWebhook) webhook.py's call_segmind, invoked while a recorded
\* Segmind 429 is less than 3600 s old, sends no POST, and call_getimg then
\* gets the uploaded image.
C10_WebhookSkipsSegmindOnCooldown ==
    \A r \in Runs :
        run[r].seg_gate =>
            /\ run[r].seg_http = 0
            /\ (run[r].pc = "done" =>
                   /\ run[r].trace = <<"call_segmind", "call_getimg">>
                   /\ run[r].gi_image = run[r].uploaded_image_url)

\* C11: (SpecWebhook) once webhook.py's generate_goal_image has uploaded the
\* source and reached the providers, it returns a value that is not None;
\* when neither call_segmind nor call_getimg yielded a URL it returns the
\* uploaded URL.
C11_WebhookNeverNoneAfterUpload ==
    \A r \in Runs :
        (run[r].pc = "done" /\ run[r].src = "uploaded" /\ run[r].trace # <<>>) =>
            /\ Truthy(run[r].result)
            /\ (~Truthy(run[r].seg_ret) /\ ~Truthy(run[r].gi_ret)) =>
                  run[r].result = run[r].uploaded_image_url

\* C12: (SpecWebhook) a request of webhook.py's generate_goal_image that
\* reached call_segmind also invokes call_getimg, with the URL call_segmind
\* returned when it returned one; when both yield a URL the Getimg URL is
\* returned.
C12_WebhookAlwaysRegeneratesBody ==
    \A r \in Runs :
        (run[r].pc = "done" /\ run[r].src = "uploaded" /\ run[r].trace # <<>>) =>
            /\ run[r].trace = <<"call_segmind", "call_getimg">>
            /\ Truthy(run[r].seg_ret) => run[r].gi_image = run[r].seg_ret
            /\ (Truthy(run[r].seg_ret) /\ Truthy(run[r].gi_ret)) =>
                  run[r].result = run[r].gi_ret

\* C13: (Spec) a 429 recorded at time t keeps the provider's client from
\* calling for exactly the provider's window: the guard of call_segmind
\* (call_getimg) evaluated at a time now with t <= now < t + 3600 (1800)
\* returns None at once, and evaluated at now >= t + 3600 (1800) it lets
\* the call through; t is any clock value, the first one included.
C13_CooldownLastsExactlyWindow ==
    [][\A r \in Runs :
         /\ (run[r].pc = "seg_guard" /\ run'[r].pc # "seg_guard"
               /\ last_segmind_rate_limit_time # NoTime) =>
              LET t == last_segmind_rate_limit_time
              IN  /\ (t <= now /\ now < t + SEGMIND_COOLDOWN_SECONDS) =>
                        /\ run'[r].pc = "seg_return"
                        /\ run'[r].seg_resp = "cooldown"
                        /\ run'[r].seg_ret = None
                  /\ now >= t + SEGMIND_COOLDOWN_SECONDS => run'[r].pc = "seg_post"
         /\ (run[r].pc = "gi_guard" /\ run'[r].pc # "gi_guard"
               /\ last_getimg_rate_limit_time # NoTime) =>
              LET t == last_getimg_rate_limit_time
              IN  /\ (t <= now /\ now < t + GETIMG_COOLDOWN_SECONDS) =>
                        /\ run'[r].pc = "gi_return"
                        /\ run'[r].gi_ret = None
                  /\ now >= t + GETIMG_COOLDOWN_SECONDS => run'[r].pc = "gi_download"
    ]_vars

\* a Segmind 429 recorded at the first clock value, and a later request let
\* through by the guard exactly 3600 s after it
C13_Witness ==
    \E r \in Runs :
        /\ run[r].pc = "seg_post"
        /\ last_segmind_rate_limit_time = ClockStart
        /\ now = last_segmind_rate_limit_time + SEGMIND_COOLDOWN_SECONDS

\* C14: (Spec) a client whose API key is unset sends no request to its
\* provider and returns None, and generate_goal_image returns the best image
\* of the other stages: call_segmind without SEGMIND_API_KEY, call_getimg
\* without GETIMG_API_KEY.
C14_MissingKeySkipsProvider ==
    \A r \in Runs :
        /\ run[r].seg_resp = "no_key" =>
              /\ run[r].seg_http = 0
              /\ run[r].seg_ret = None
              /\ (run[r].pc = "done" /\ run[r].src = "uploaded") =>
                    run[r].result = BestImage(r)
        /\ run[r].gi_no_key =>
              /\ run[r].gi_log = <<>>
              /\ run[r].pc \in GetimgReturned => run[r].gi_ret = None
              /\ run[r].pc = "done" => run[r].result = run[r].face_enhanced_url

\* the half of C14 about SEGMIND_API_KEY
C14_MissingSegmindKeySkips ==
    \A r \in Runs :
        run[r].seg_resp = "no_key" =>
            /\ run[r].seg_http = 0
            /\ run[r].seg_ret = None
            /\ (run[r].pc = "done" /\ run[r].src = "uploaded") =>
                  run[r].result = BestImage(r)

\* C15: (Spec) when call_segmind has returned, segmind_calls is one more
\* than when the request began, and if it returned None (429, 401, other
\* status, non-JSON or undecodable body, body without output, exception,
\* missing key, cooldown) segmind_failures is one more as well.
C15_SegmindCountsEveryFailure ==
    \A r \in SeqRuns :
        run[r].pc = "seg_return" =>
            /\ segmind_calls = run[r].entry[1] + 1
            /\ run[r].seg_ret = None => segmind_failures = run[r].entry[2] + 1

\* the half of C15 about segmind_calls, and the failures call_segmind does count
C15_SegmindCountsCallsAndErrors ==
    \A r \in SeqRuns :
        run[r].pc = "seg_return" =>
            /\ segmind_calls = run[r].entry[1] + 1
            /\ segmind_failures =
                  run[r].entry[2] +
                  (IF run[r].seg_resp \in {"cooldown", "no_key", "json_url", "json_list",
                                           "json_empty_str", "json_object", "json_no_output"}
                   THEN 0 ELSE 1)

\* C16: (Spec) a client invoked while its provider's recorded 429 is inside
\* the window leaves the provider's call counter as it was: segmind_calls
\* for call_segmind, getimg_calls for call_getimg.
C16_CooldownLeavesCallCounter ==
    \A r \in SeqRuns :
        /\ run[r].seg_gate => segmind_calls = run[r].entry[1]
        /\ run[r].gi_gate => getimg_calls = run[r].entry[3]

\* the number a weight argument stands for when it is a number, 0 when it
\* is missing
GivenWeight(w) == IF w.t = "num" THEN w.n ELSE 0
\* the second and third part of a composed prompt
BodyPart(r) == run[r].enhanced_prompt[2]
GenderPart(r) == run[r].enhanced_prompt[3]

\* C17: (SpecPrompt) for weights that are numbers or missing (counted as 0)
\* and d = desired_weight - current_weight, the prompt build_prompt returns
\* has the body descriptor "similar body type" exactly when |d| < 2, the
\* "slimmer" one exactly when d <= -2 and the "stronger" one exactly when
\* d >= 2, and no other.
C17_BodyDescriptorByDelta ==
    \A r \in SeqRuns :
        ( /\ run[r].pc = "bp_returned"
          /\ run[r].req.current_weight.t \in {"num", "none"}
          /\ run[r].req.desired_weight.t \in {"num", "none"} ) =>
            LET d == GivenWeight(run[r].req.desired_weight)
                       - GivenWeight(run[r].req.current_weight)
            IN  /\ BodyPart(r) \in {"similar body type",
                                    "slimmer, toned, healthy appearance",
                                    "stronger, athletic build"}
                /\ BodyPart(r) = "similar body type" <=> (d < 2 /\ d > 0 - 2)
                /\ BodyPart(r) = "slimmer, toned, healthy appearance" <=> d <= 0 - 2
                /\ BodyPart(r) = "stronger, athletic build" <=> d >= 2

\* current_weight 2 and no desired_weight: d = -2, the slimmer descriptor
C17_Witness ==
    \E r \in SeqRuns :
        /\ run[r].pc = "bp_returned"
        /\ run[r].req.current_weight = PyNum(2)
        /\ run[r].req.desired_weight = PyNone
        /\ BodyPart(r) = "slimmer, toned, healthy appearance"

\* the descriptor C18 names for a gender argument
NamedGenderPrompt(gender) ==
    IF gender.t = "str" /\ gender.s \in UNION { CaseVariants(w) : w \in MaleWords }
    THEN "masculine features, realistic male fitness aesthetic"
    ELSE IF gender.t = "str" /\ gender.s \in UNION { CaseVariants(w) : w \in FemaleWords }
    THEN "feminine features, realistic female fitness aesthetic"
    ELSE "realistic human body appearance"

\* C18: (SpecPrompt) build_prompt returns a prompt with the masculine
\* descriptor for "male" and "man" in any letter case, the feminine one for
\* "female" and "woman" in any letter case, and the neutral one for every
\* other gender value, None and "" included.
C18_GenderDescriptor ==
    \A r \in SeqRuns :
        (run[r].pc # "bp_call" /\ run[r].req.height = PyAbsent) =>
            /\ run[r].pc = "bp_returned"
            /\ GenderPart(r) = NamedGenderPrompt(run[r].req.gender)

\* C18 for the gender values that are strings, None or 0
C18_GenderDescriptorOfStrings ==
    \A r \in SeqRuns :
        ( /\ run[r].pc # "bp_call" /\ run[r].req.height = PyAbsent
          /\ (run[r].req.gender.t = "str" \/ ~PyTruthy(run[r].req.gender)) ) =>
            /\ run[r].pc = "bp_returned"
            /\ GenderPart(r) = NamedGenderPrompt(run[r].req.gender)

\* a weight argument that is present and no number: an object, or a string
\* with a character that is no digit and no leading sign
NonNumeric(w) ==
    \/ w.t = "obj"
    \/ /\ w.t = "str"
       /\ \E i \in 1..Len(w.s) : ~IsDigit(w.s[i]) /\ ~(i = 1 /\ w.s[i] = "-")

\* C19: (SpecPrompt) build_prompt, called with its four arguments, returns
\* a prompt and does not raise, whatever the gender and the weights are;
\* with a non-numeric weight the body descriptor is "similar body type".
C19_BuildPromptTotal ==
    \A r \in SeqRuns :
        (run[r].pc # "bp_call" /\ run[r].req.height = PyAbsent) =>
            /\ run[r].pc = "bp_returned"
            /\ Len(run[r].enhanced_prompt) = 4
            /\ ( NonNumeric(run[r].req.current_weight)
                   \/ NonNumeric(run[r].req.desired_weight) ) =>
                  BodyPart(r) = "similar body type"

\* C19 for the gender values that are strings, None or 0
C19_TotalForStringGender ==
    \A r \in SeqRuns :
        ( /\ run[r].pc # "bp_call" /\ run[r].req.height = PyAbsent
          /\ (run[r].req.gender.t = "str" \/ ~PyTruthy(run[r].req.gender)) ) =>
            /\ run[r].pc = "bp_returned"
            /\ Len(run[r].enhanced_prompt) = 4
            /\ ( NonNumeric(run[r].req.current_weight)
                   \/ NonNumeric(run[r].req.desired_weight) ) =>
                  BodyPart(r) = "similar body type"

\* C20: (SpecPrompt) build_prompt takes an optional height: called with a
\* numeric height it returns a prompt with a height descriptor besides the
\* base prompt, the body descriptor, the gender descriptor and the suffix;
\* called without one it returns a prompt of those four parts only.
C20_HeightDescriptor ==
    \A r \in SeqRuns :
        ( /\ run[r].pc # "bp_call"
          /\ (run[r].req.gender.t = "str" \/ ~PyTruthy(run[r].req.gender)) ) =>
            /\ run[r].pc = "bp_returned"
            /\ Len(run[r].enhanced_prompt) =
                  IF run[r].req.height.t = "num" THEN 5 ELSE 4

\* C21: (Spec) when Segmind answers 200 with raw image bytes (a body that
\* is not application/json), call_segmind stores the bytes (a second
\* upload), returns the URL of the stored image and counts no failure.
C21_RawBytesAreStored ==
    \A r \in SeqRuns :
        (run[r].pc = "seg_return" /\ run[r].seg_resp = "non_json") =>
            /\ Truthy(run[r].seg_ret)
            /\ run[r].uploads = 2
            /\ segmind_failures = run[r].entry[2]

\* positions inside call_segmind and inside call_getimg
SegmindPcs == {"seg_calls_load", "seg_calls_store", "seg_guard", "seg_post",
               "seg_rl_time", "seg_rl_store", "seg_fail_load", "seg_fail_store"}
GetimgPcs == {"gi_calls_load", "gi_calls_store", "gi_guard", "gi_download", "gi_post",
              "gi_dfail_load", "gi_dfail_store", "gi_rl_time", "gi_rl_store",
              "gi_fail_load", "gi_fail_store"}

\* C22: (Spec) a provider's rate-limit timestamp changes only in the
\* invocation of its client that was answered 429; a step of call_segmind
\* leaves Getimg's counters and timestamp alone, and a step of call_getimg
\* leaves Segmind's.
C22_Only429ChangesCooldown ==
    [][\A r \in SeqRuns :
         /\ last_segmind_rate_limit_time' # last_segmind_rate_limit_time =>
               /\ run[r].pc = "seg_rl_store"
               /\ run[r].seg_resp = "429"
         /\ last_getimg_rate_limit_time' # last_getimg_rate_limit_time =>
               /\ run[r].pc = "gi_rl_store"
               /\ run[r].gi_log # <<>>
               /\ run[r].gi_log[Len(run[r].gi_log)].resp = "429"
         /\ run[r].pc \in SegmindPcs =>
               UNCHANGED <<getimg_calls, getimg_failures, last_getimg_rate_limit_time>>
         /\ run[r].pc \in GetimgPcs =>
               UNCHANGED <<segmind_calls, segmind_failures, last_segmind_rate_limit_time>>
    ]_vars

\* a 401 answered to a request that follows a recorded 429: the timestamp
\* is the one of the 429, and Getimg's is still None
C22_Witness ==
    \E r \in SeqRuns :
        /\ run[r].pc = "seg_return" /\ run[r].seg_resp = "401"
        /\ last_segmind_rate_limit_time = ClockStart
        /\ now > ClockStart
        /\ last_getimg_rate_limit_time = NoTime
        /\ getimg_calls > 0

\* the stage of generate_goal_image a position belongs to
Stage(pc) ==
    CASE pc = "idle" -> 0
      [] pc = "source" -> 1
      [] pc \in SegmindPcs \cup {"seg_return"} -> 2
      [] pc \in GetimgPcs \cup {"gi_return"} -> 3
      [] OTHER -> 4

C24_CountersMonotonic ==
    [][ /\ segmind_calls' >= segmind_calls
        /\ segmind_failures' >= segmind_failures
        /\ getimg_calls' >= getimg_calls
        /\ getimg_failures' >= getimg_failures ]_vars

\* C25: (Spec, requests one after another) a provider's failure counter
\* never exceeds its call counter.
C25_FailuresAtMostCalls ==
    /\ segmind_failures <= segmind_calls
    /\ getimg_failures <= getimg_calls

\* the half of C25 about Segmind
C25_SegmindFailuresAtMostCalls == segmind_failures <= segmind_calls

\* C26: (SpecConc, concurrent threads, a clock that only advances) a
\* recorded rate-limit timestamp is never replaced by an earlier one.
C26_RateLimitTimeNeverBackward ==
    [][ /\ last_segmind_rate_limit_time' >= last_segmind_rate_limit_time
        /\ last_getimg_rate_limit_time' >= last_getimg_rate_limit_time ]_vars

\* C27: (SpecHandle) handle_webhook answers 400 to a body that is not JSON
\* or has no data.fields, and 200 to every body with data.fields, whichever
\* form fields it has and however image generation, plan generation, PDF
\* creation and email delivery end; it has then sent one email if an email
\* address was found and none otherwise.
C27_WebhookAnswers ==
    \A r \in SeqRuns :
        run[r].h.pc = "answered" =>
            IF run[r].h.body = "fields"
            THEN /\ run[r].h.status = 200
                 /\ run[r].h.sent = (IF PyTruthy(run[r].h.email) THEN 1 ELSE 0)
            ELSE /\ run[r].h.status = 400
                 /\ run[r].h.sent = 0

\* C27 for the bodies that are not JSON, are falsy or an object without
\* data or data.fields, or have data.fields with both weights numeric
C27_AnswersWithNumericWeights ==
    \A r \in SeqRuns :
        ( /\ run[r].h.pc = "answered"
          /\ run[r].h.body # "data_null"
          /\ (run[r].h.body = "fields" =>
                 /\ run[r].h.current_weight_kg.t = "num"
                 /\ run[r].h.desired_weight_kg.t = "num") ) =>
            IF run[r].h.body = "fields"
            THEN /\ run[r].h.status = 200
                 /\ run[r].h.sent = (IF PyTruthy(run[r].h.email) THEN 1 ELSE 0)
            ELSE /\ run[r].h.status = 400
                 /\ run[r].h.sent = 0

====
